---------------------------- MODULE Spec2Model ----------------------------
(***************************************************************************)
(* Model of simple_ledger_cli: the record loop of handle_csv (main.rs) and *)
(* the Client account state machine (structs.rs).                          *)
(*                                                                         *)
(* Amounts are f64 in the source.  They are modelled as a binary floating  *)
(* point format with MantBits significant bits and round-to-nearest-even,  *)
(* the rounding of IEEE 754 that f64 uses with 53 bits: a value is an      *)
(* integer count of the smallest unit, every result of + and - is rounded  *)
(* to MantBits significant bits.                                           *)
(*                                                                         *)
(* Spec is the loop on an arbitrary stream of rows.  SpecShard runs the    *)
(* loop on a recorded stream and then runs the same stream split by        *)
(* client, the shards interleaved, to compare the two results.             *)
(***************************************************************************)
EXTENDS Integers, Sequences, FiniteSets

\* ------------------------------------------------------------------ bounds
MantBits == 3
MaxClient == 2
MaxTx == 3
\* the length of the stream that is processed in shards
MaxStream == 3

Clients == 1..MaxClient
TxIds == 1..MaxTx
\* amounts a record may carry; each is below 2^MantBits, hence representable
Amounts == {2, 7}

\* ------------------------------------------------------ f64 arithmetic
RECURSIVE Quantum(_, _)
\* the spacing of representable values around magnitude m: the least power
\* of two q (starting at q) with m < 2^MantBits * q
Quantum(m, q) == IF m < (2 ^ MantBits) * q THEN q ELSE Quantum(m, 2 * q)

Abs(n) == IF n < 0 THEN 0 - n ELSE n

\* round-to-nearest, ties-to-even, to MantBits significant bits
RoundMag(m) ==
    LET q == Quantum(m, 1)
        k == m \div q
        lo == k * q
        rem == m - lo
    IN  IF 2 * rem < q THEN lo
        ELSE IF 2 * rem > q THEN lo + q
        ELSE IF k % 2 = 0 THEN lo ELSE lo + q

Round(n) == IF n < 0 THEN 0 - RoundMag(Abs(n)) ELSE RoundMag(n)

\* f64 `+` and `-`
Add(a, b) == Round(a + b)
Sub(a, b) == Round(a - b)

\* ------------------------------------------------------------- records
Deposit == "deposit"
Withdrawal == "withdrawal"
Dispute == "dispute"
Resolve == "resolve"
Chargeback == "chargeback"
Operation == {Deposit, Withdrawal, Dispute, Resolve, Chargeback}

\* Option<f64>: None is the empty sequence, Some(a) is <<a>>
None == << >>
Some(a) == << a >>
\* the amount column of a deposit or withdrawal row: absent, zero, or one of
\* Amounts
AmountOpts == {None, Some(0)} \cup {Some(a) : a \in Amounts}

\* the rows of the input: a dispute, resolve or chargeback row carries no
\* amount, or one that makes it invalid
Record ==
    [type : {Deposit, Withdrawal}, client : Clients, tx : TxIds,
     amount : AmountOpts]
    \cup [type : {Dispute, Resolve, Chargeback}, client : Clients, tx : TxIds,
          amount : {None, Some(0)}]

\* Record::is_valid
is_valid(r) ==
    IF r.amount = None /\ (r.type = Deposit \/ r.type = Withdrawal) THEN FALSE
    ELSE IF r.amount # None THEN r.amount[1] > 0
    ELSE TRUE

\* ClientDeposit::from_record
ClientDeposit_from_record(r) ==
    [tx |-> r.tx, amount |-> r.amount[1],
     is_disputed |-> FALSE, is_dispute_handled |-> FALSE]

\* from_record that opens the account without recording the deposit
Client_from_record_empty_history(r) ==
    [id |-> r.client,
     available |-> r.amount[1],
     held |-> 0,
     total |-> r.amount[1],
     locked |-> FALSE,
     deposits |-> << >>]

\* Client::from_record, the Deposit arm (the only one handle_csv reaches)
Client_from_record(r) ==
    [id |-> r.client,
     available |-> r.amount[1],
     held |-> 0,
     total |-> r.amount[1],
     locked |-> FALSE,
     deposits |-> << ClientDeposit_from_record(r) >>]

\* Client::deposit_amount
deposit_amount(c, amount) ==
    [c EXCEPT !.available = Add(@, amount), !.total = Add(@, amount)]

\* withdraw_amount without its test of available
withdraw_amount_unchecked(c, amount) ==
    [c EXCEPT !.available = Sub(@, amount), !.total = Sub(@, amount)]

\* withdraw_amount that takes the amount from available only
withdraw_amount_available_only(c, amount) ==
    IF amount <= c.available
    THEN [c EXCEPT !.available = Sub(@, amount)]
    ELSE c

\* Client::withdraw_amount
withdraw_amount(c, amount) ==
    IF amount <= c.available
    THEN [c EXCEPT !.available = Sub(@, amount), !.total = Sub(@, amount)]
    ELSE c

\* find that falls back on the first deposit when none carries the tx
find_or_first(deposits, tx) ==
    LET hits == {i \in 1..Len(deposits) : deposits[i].tx = tx}
    IN  IF hits = {} THEN (IF Len(deposits) > 0 THEN 1 ELSE 0)
        ELSE CHOOSE i \in hits : \A j \in hits : i <= j

\* self.deposits.iter_mut().find(|d| d.tx == tx): the index of the first
\* deposit with that tx, 0 when there is none
find(deposits, tx) ==
    LET hits == {i \in 1..Len(deposits) : deposits[i].tx = tx}
    IN  IF hits = {} THEN 0
        ELSE CHOOSE i \in hits : \A j \in hits : i <= j

\* new_dispute that takes the amount out of total as it holds it
new_dispute_takes_total(c, tx) ==
    LET i == find(c.deposits, tx)
    IN  IF i = 0 THEN c
        ELSE LET deposit == c.deposits[i]
             IN  IF deposit.is_disputed \/ deposit.is_dispute_handled THEN c
                 ELSE IF c.available >= deposit.amount
                 THEN [c EXCEPT !.deposits[i].is_disputed = TRUE,
                                !.available = Sub(@, deposit.amount),
                                !.held = Add(@, deposit.amount),
                                !.total = Sub(@, deposit.amount)]
                 ELSE c

\* new_dispute that marks the deposit disputed before it tests available
new_dispute_marks_unfunded(c, tx) ==
    LET i == find(c.deposits, tx)
    IN  IF i = 0 THEN c
        ELSE LET deposit == c.deposits[i]
             IN  IF deposit.is_disputed \/ deposit.is_dispute_handled THEN c
                 ELSE IF c.available >= deposit.amount
                 THEN [c EXCEPT !.deposits[i].is_disputed = TRUE,
                                !.available = Sub(@, deposit.amount),
                                !.held = Add(@, deposit.amount)]
                 ELSE [c EXCEPT !.deposits[i].is_disputed = TRUE]

\* Client::new_dispute
new_dispute(c, tx) ==
    LET i == find(c.deposits, tx)
    IN  IF i = 0 THEN c
        ELSE LET deposit == c.deposits[i]
             IN  IF deposit.is_disputed \/ deposit.is_dispute_handled THEN c
                 ELSE IF c.available >= deposit.amount
                 THEN [c EXCEPT !.deposits[i].is_disputed = TRUE,
                                !.available = Sub(@, deposit.amount),
                                !.held = Add(@, deposit.amount)]
                 ELSE c

\* resolve_dispute with the arms of `if !is_chargeback` written out; the
\* mutants below differ from it in one place each
resolve_arms(c, i, is_chargeback, lock_after_resolve, chargeback_total) ==
    LET deposit == c.deposits[i]
    IN  IF ~is_chargeback
        THEN [c EXCEPT !.deposits[i].is_dispute_handled = TRUE,
                       !.held = Sub(@, deposit.amount),
                       !.available = Add(@, deposit.amount),
                       !.locked = lock_after_resolve]
        ELSE [c EXCEPT !.deposits[i].is_dispute_handled = TRUE,
                       !.held = Sub(@, deposit.amount),
                       !.total = IF chargeback_total
                                 THEN Sub(@, deposit.amount) ELSE @,
                       !.locked = TRUE]

\* resolve_dispute that does not test is_dispute_handled
resolve_dispute_again(c, tx, is_chargeback) ==
    LET i == find(c.deposits, tx)
    IN  IF i = 0 THEN c
        ELSE IF ~c.deposits[i].is_disputed THEN c
        ELSE resolve_arms(c, i, is_chargeback, c.locked, TRUE)

\* resolve_dispute whose Resolve unlocks the account
resolve_dispute_unlocks(c, tx, is_chargeback) ==
    LET i == find(c.deposits, tx)
    IN  IF i = 0 THEN c
        ELSE IF ~c.deposits[i].is_disputed \/ c.deposits[i].is_dispute_handled
        THEN c
        ELSE resolve_arms(c, i, is_chargeback, FALSE, TRUE)

\* resolve_dispute whose Chargeback leaves total alone
resolve_dispute_keeps_total(c, tx, is_chargeback) ==
    LET i == find(c.deposits, tx)
    IN  IF i = 0 THEN c
        ELSE IF ~c.deposits[i].is_disputed \/ c.deposits[i].is_dispute_handled
        THEN c
        ELSE resolve_arms(c, i, is_chargeback, c.locked, FALSE)

\* resolve_dispute whose Resolve releases the funds without marking the
\* deposit handled
resolve_dispute_unmarked(c, tx, is_chargeback) ==
    LET i == find(c.deposits, tx)
    IN  IF i = 0 THEN c
        ELSE LET deposit == c.deposits[i]
             IN  IF ~deposit.is_disputed \/ deposit.is_dispute_handled THEN c
                 ELSE IF ~is_chargeback
                 THEN [c EXCEPT !.held = Sub(@, deposit.amount),
                                !.available = Add(@, deposit.amount)]
                 ELSE resolve_arms(c, i, TRUE, c.locked, TRUE)

\* resolve_dispute that does not test is_disputed
resolve_dispute_without_dispute(c, tx, is_chargeback) ==
    LET i == find(c.deposits, tx)
    IN  IF i = 0 THEN c
        ELSE IF c.deposits[i].is_dispute_handled THEN c
        ELSE resolve_arms(c, i, is_chargeback, c.locked, TRUE)

\* Client::resolve_dispute
resolve_dispute(c, tx, is_chargeback) ==
    LET i == find(c.deposits, tx)
    IN  IF i = 0 THEN c
        ELSE LET deposit == c.deposits[i]
             IN  IF ~deposit.is_disputed \/ deposit.is_dispute_handled THEN c
                 ELSE IF ~is_chargeback
                 THEN [c EXCEPT !.deposits[i].is_dispute_handled = TRUE,
                                !.held = Sub(@, deposit.amount),
                                !.available = Add(@, deposit.amount)]
                 ELSE [c EXCEPT !.deposits[i].is_dispute_handled = TRUE,
                                !.held = Sub(@, deposit.amount),
                                !.total = Sub(@, deposit.amount),
                                !.locked = TRUE]

\* the match of Client::handle_record
match_operation(c, r) ==
    CASE r.type = Deposit ->
           [deposit_amount(c, r.amount[1]) EXCEPT
               !.deposits = Append(@, ClientDeposit_from_record(r))]
      [] r.type = Withdrawal -> withdraw_amount(c, r.amount[1])
      [] r.type = Dispute -> new_dispute(c, r.tx)
      [] r.type = Resolve -> resolve_dispute(c, r.tx, FALSE)
      [] r.type = Chargeback -> resolve_dispute(c, r.tx, TRUE)

\* handle_record whose lock guard lets deposits and withdrawals through
handle_record_blocks_disputes_only(c, r, block_locked) ==
    IF block_locked /\ c.locked /\ r.type \notin {Deposit, Withdrawal}
    THEN c
    ELSE match_operation(c, r)

\* handle_record whose lock guard does not look at the flag
handle_record_always_blocks(c, r, block_locked) ==
    IF c.locked THEN c ELSE match_operation(c, r)

\* Client::handle_record
handle_record(c, r, block_locked) ==
    IF block_locked /\ c.locked THEN c ELSE match_operation(c, r)

\* --------------------------------------------------------------- state
VARIABLES
    clients_map,          \* HashMap<u16, Client>: a function on the known ids
    tx_set,               \* HashSet<u32> of the deposit/withdrawal tx ids seen
    should_block_locked,  \* BLOCK_LOCKED_ACCOUNTS, read once before the loop
    \* the sharded run of a stream, compared with the run of the loop on it
    stream,               \* the rows read so far, in the order of the input
    phase,                \* "loop", "sequential" or "sharded"
    sequential,           \* clients_map as the loop left it after the stream
    next_of               \* per client, how many rows of its shard are done

shard_vars == << stream, phase, sequential, next_of >>
vars == << clients_map, tx_set, should_block_locked, shard_vars >>

\* HashMap::new()
EmptyMap == [c \in {} |-> 0]

Init ==
    /\ clients_map = EmptyMap
    /\ tx_set = {}
    /\ should_block_locked \in BOOLEAN
    /\ stream = << >>
    /\ phase = "loop"
    /\ sequential = EmptyMap
    /\ next_of = [c \in Clients |-> 0]

\* the test of main.rs:41 without the test: every record is deduplicated
is_money_any(r) == r.type \in Operation

\* the test of main.rs:41
is_money(r) == r.type = Deposit \/ r.type = Withdrawal

\* is_duplicate that looks only at deposits
is_duplicate_deposit_only(r) == r.type = Deposit /\ r.tx \in tx_set

\* main.rs:41-42: a deposit or withdrawal whose tx is in tx_set
is_duplicate(r) == is_money(r) /\ r.tx \in tx_set

\* main.rs:44-46: tx_set after the dedup test let the record through
insert_tx(r) == IF is_money(r) THEN tx_set \cup {r.tx} ELSE tx_set

\* The ids of the input.  u16 client ids and u32 tx ids are only hashed and
\* compared for equality (HashMap, HashSet, find), so the first deposit or
\* withdrawal to use a new tx id uses the least unused one, and the deposit
\* that creates a client uses the least unused client id: every stream is
\* one of these up to a renaming of its ids.
Fresh(r) ==
    /\ (is_money(r) /\ r.tx \notin tx_set) =>
          \A t \in TxIds \ tx_set : r.tx <= t
    /\ (r.type = Deposit /\ r.client \notin DOMAIN clients_map) =>
          \A c \in Clients \ DOMAIN clients_map : r.client <= c

\* main.rs:38-47: the record is skipped before it reaches a client
is_skipped(r) == ~is_valid(r) \/ is_duplicate(r)

\* the loop recording the tx only of a record that changed an account
tx_set_after_effective_only(r) ==
    IF is_skipped(r) THEN tx_set
    ELSE IF is_money(r) /\ r.client \in DOMAIN clients_map
            /\ handle_record(clients_map[r.client], r, should_block_locked)
                  = clients_map[r.client]
    THEN tx_set
    ELSE IF is_money(r) /\ r.client \notin DOMAIN clients_map
            /\ r.type # Deposit
    THEN tx_set
    ELSE insert_tx(r)

\* main.rs:38-47: tx_set after the iteration of the loop on record r
tx_set_after(r) == IF is_skipped(r) THEN tx_set ELSE insert_tx(r)

\* the loop with `else if` testing for a Deposit or a Withdrawal: a
\* Withdrawal for an unknown client opens an account too
clients_map_after_opens_on_withdrawal(r) ==
    IF is_skipped(r) THEN clients_map
    ELSE IF r.client \in DOMAIN clients_map
    THEN [clients_map EXCEPT
            ![r.client] = handle_record(@, r, should_block_locked)]
    ELSE IF is_money(r)
    THEN [c \in DOMAIN clients_map \cup {r.client} |->
            IF c = r.client THEN Client_from_record(r) ELSE clients_map[c]]
    ELSE clients_map

\* the loop handing the record to every account instead of the one it names
clients_map_after_all_accounts(r) ==
    IF is_skipped(r) THEN clients_map
    ELSE IF r.client \in DOMAIN clients_map
    THEN [c \in DOMAIN clients_map |->
            handle_record(clients_map[c], r, should_block_locked)]
    ELSE IF r.type = Deposit
    THEN [c \in DOMAIN clients_map \cup {r.client} |->
            IF c = r.client THEN Client_from_record(r) ELSE clients_map[c]]
    ELSE clients_map

\* main.rs:38-56: clients_map after the iteration of the loop on record r
clients_map_after(r) ==
    IF is_skipped(r) THEN clients_map
    ELSE IF r.client \in DOMAIN clients_map
    THEN [clients_map EXCEPT
            ![r.client] = handle_record(@, r, should_block_locked)]
    ELSE IF r.type = Deposit
    THEN [c \in DOMAIN clients_map \cup {r.client} |->
            IF c = r.client THEN Client_from_record(r) ELSE clients_map[c]]
    ELSE clients_map

\* one iteration of the loop of handle_csv on record r
Iterate(r) ==
    /\ Fresh(r)
    /\ tx_set' = tx_set_after(r)
    /\ clients_map' = clients_map_after(r)
    /\ UNCHANGED should_block_locked
    /\ UNCHANGED shard_vars

\* main.rs:38-40: an invalid record is skipped
SkipInvalid(r) == ~is_valid(r) /\ Iterate(r)

\* main.rs:41-43: a deposit or withdrawal whose tx was seen is skipped
SkipDuplicate(r) == is_valid(r) /\ is_duplicate(r) /\ Iterate(r)

\* main.rs:51-52: the record goes to the client it names
HandleExisting(r) ==
    /\ ~is_skipped(r)
    /\ r.client \in DOMAIN clients_map
    /\ Iterate(r)

\* main.rs:53-56: a deposit for an unknown client creates it
CreateClient(r) ==
    /\ ~is_skipped(r)
    /\ r.client \notin DOMAIN clients_map
    /\ r.type = Deposit
    /\ Iterate(r)

\* main.rs:51-56, neither branch: any other record for an unknown client
DropUnknown(r) ==
    /\ ~is_skipped(r)
    /\ r.client \notin DOMAIN clients_map
    /\ r.type # Deposit
    /\ Iterate(r)

Next ==
    \E r \in Record :
        \/ SkipInvalid(r)
        \/ SkipDuplicate(r)
        \/ HandleExisting(r)
        \/ CreateClient(r)
        \/ DropUnknown(r)

Spec == Init /\ [][Next]_vars

\* ------------------------------------------------- the stream in shards
\* The loop first runs on a stream of MaxStream rows, which is recorded, and
\* its accounts are kept in `sequential`.  The same stream is then split by
\* client, one shard per client, and the shards run interleaved in any order,
\* each in the order of the stream, on an empty map of accounts and one
\* shared dedup set.  A shard's step is the loop body on the shard's next
\* row: the test-and-insert on the shared set is one synchronized step, and
\* what follows it touches only the shard's own account.
ShardInit ==
    /\ clients_map = EmptyMap
    /\ tx_set = {}
    /\ should_block_locked \in BOOLEAN
    /\ stream = << >>
    /\ phase = "sequential"
    /\ sequential = EmptyMap
    /\ next_of = [c \in Clients |-> 0]

\* the rows of the stream for client c, in the order of the stream
shard(c) ==
    LET RECURSIVE rows(_)
        rows(n) == IF n = 0 THEN << >>
                   ELSE IF stream[n].client = c
                   THEN Append(rows(n - 1), stream[n])
                   ELSE rows(n - 1)
    IN  rows(Len(stream))

\* the loop reads row r and runs its body on it
ReadSequential(r) ==
    /\ phase = "sequential"
    /\ Len(stream) < MaxStream
    /\ Fresh(r)
    /\ tx_set' = tx_set_after(r)
    /\ clients_map' = clients_map_after(r)
    /\ stream' = Append(stream, r)
    /\ UNCHANGED << should_block_locked, phase, sequential, next_of >>

\* the loop is through the stream: keep its accounts, start the shards on
\* an empty map and an empty dedup set
StartShards ==
    /\ phase = "sequential"
    /\ Len(stream) = MaxStream
    /\ phase' = "sharded"
    /\ sequential' = clients_map
    /\ clients_map' = EmptyMap
    /\ tx_set' = {}
    /\ UNCHANGED << should_block_locked, stream, next_of >>

\* the shard of client c runs the loop body on its next row
ShardStep(c) ==
    /\ phase = "sharded"
    /\ next_of[c] < Len(shard(c))
    /\ LET r == shard(c)[next_of[c] + 1]
       IN  /\ tx_set' = tx_set_after(r)
           /\ clients_map' = clients_map_after(r)
    /\ next_of' = [next_of EXCEPT ![c] = @ + 1]
    /\ UNCHANGED << should_block_locked, stream, phase, sequential >>

ShardNext ==
    \/ \E r \in Record : ReadSequential(r)
    \/ StartShards
    \/ \E c \in Clients : ShardStep(c)

SpecShard == ShardInit /\ [][ShardNext]_vars

\* ---------------------------------------------------------------- claims
\* the accounts that exist
Known == DOMAIN clients_map

\* the indices of the deposits of account c that carry tx
Named(c, tx) == {i \in 1..Len(clients_map[c].deposits) :
                    clients_map[c].deposits[i].tx = tx}

\* the deposit of account c that a record with this tx names (0: none)
NamedBy(c, tx) ==
    IF Named(c, tx) = {} THEN 0
    ELSE CHOOSE i \in Named(c, tx) : \A j \in Named(c, tx) : i <= j

\* the deposit is under dispute: disputed and not yet handled
IsOpen(d) == d.is_disputed /\ ~d.is_dispute_handled

\* account c is locked while the block-locked flag is on
IsBlocked(c) == should_block_locked /\ clients_map[c].locked

\* the loop hands record r to an existing account (Client::handle_record)
Handed(r) == ~is_skipped(r) /\ r.client \in Known

\* account r.client before and after the iteration of the loop on r
Before(r) == clients_map[r.client]
After(r) == clients_map_after(r)[r.client]

DisputeKinds == {Dispute, Resolve, Chargeback}

\* C1: for every account, in every reachable state, total == available +
\* held, the sum taken as the code's own test takes it (f64 +, structs.rs:241);
\* the equality over the reals is stronger and fails wherever this one does.
C1_BalanceInvariant ==
    \A c \in Known :
        clients_map[c].total = Add(clients_map[c].available, clients_map[c].held)

\* C2: for every account, in every reachable state, available >= 0.
C2_AvailableNonNegative ==
    \A c \in Known : clients_map[c].available >= 0

\* C2's case: a dispute took everything that a withdrawal had left: of two
\* deposits of 2 in an account never charged back, 2 was withdrawn and the
\* other 2 is held, so that available is at the bound 0
C2_Witness ==
    \E c \in Known :
        /\ clients_map[c].available = 0
        /\ clients_map[c].held = 2
        /\ clients_map[c].total = 2
        /\ ~clients_map[c].locked
        /\ Len(clients_map[c].deposits) = 2
        /\ \A i \in 1..2 : clients_map[c].deposits[i].amount = 2

\* what C3 says of a Withdrawal handed to an account, when shielded says
\* whether the lock guard shields the account
WithdrawalEffect(r, shielded) ==
    IF r.amount[1] > Before(r).available \/ shielded
    THEN After(r) = Before(r)
    ELSE /\ After(r).available = Sub(Before(r).available, r.amount[1])
         /\ After(r).total = Sub(Before(r).total, r.amount[1])
         /\ After(r).held = Before(r).held
         /\ After(r).locked = Before(r).locked
         /\ After(r).deposits = Before(r).deposits

\* C3 as stated: in every reachable state, a Withdrawal handed to an account
\* leaves the whole account as it was when its amount exceeds available, and
\* otherwise takes the amount (f64 subtraction) from available and from total
\* and leaves held, locked and the deposits alone.
C3_WithdrawalAsStated ==
    \A r \in Record :
        (r.type = Withdrawal /\ Handed(r)) => WithdrawalEffect(r, FALSE)

\* C3 amended: the same, except that a Withdrawal handed to a locked account
\* while the block-locked flag is on leaves the account as it was whatever
\* its amount.
C3_Withdrawal ==
    \A r \in Record :
        (r.type = Withdrawal /\ Handed(r)) =>
            WithdrawalEffect(r, IsBlocked(r.client))

\* C3's case: an unlocked account with funds is handed a Withdrawal of more
\* than its available, after an earlier withdrawal was paid out of it
C3_Witness ==
    \E r \in Record :
        /\ r.type = Withdrawal
        /\ ENABLED HandleExisting(r)
        /\ ~Before(r).locked
        /\ Before(r).available > 0
        /\ r.amount[1] > Before(r).available
        /\ Len(Before(r).deposits) = 1
        /\ Before(r).held = 0
        /\ Before(r).total < Before(r).deposits[1].amount

\* C4: in every reachable state, a Deposit or Withdrawal whose tx is in the
\* dedup set (seen on an earlier Deposit or Withdrawal, of any client)
\* changes no account and not the dedup set; and the tx of a valid Deposit or
\* Withdrawal is in the dedup set once the record has been fed, so that
\* feeding it a second time is such a step: twice is the same as once.
C4_DedupIdempotence ==
    \A r \in Record :
        r.type \in {Deposit, Withdrawal} =>
            /\ (r.amount # None /\ r.amount[1] > 0) => r.tx \in tx_set_after(r)
            /\ r.tx \in tx_set =>
                  /\ clients_map_after(r) = clients_map
                  /\ tx_set_after(r) = tx_set

\* C4's case: the tx of a deposit of one client comes again on a Withdrawal
\* for another client that has the funds to pay it, and the loop skips it
C4_Witness ==
    \E r \in Record :
        /\ r.type = Withdrawal
        /\ ENABLED SkipDuplicate(r)
        /\ r.client \in Known
        /\ r.amount[1] <= Before(r).available
        /\ ~IsBlocked(r.client)
        /\ \E d \in Known \ {r.client} : Named(d, r.tx) # {}

\* C5: in every reachable state, a handled deposit is still handled after
\* any record, and a Dispute, Resolve or Chargeback that names it leaves its
\* whole account (balances, lock flag, deposits and their flags) as it was.
C5_DisputeTerminality ==
    \A c \in Known :
        \A i \in 1..Len(clients_map[c].deposits) :
            clients_map[c].deposits[i].is_dispute_handled =>
                \A r \in Record :
                    /\ c \in DOMAIN clients_map_after(r)
                    /\ Len(clients_map_after(r)[c].deposits) >= i
                    /\ clients_map_after(r)[c].deposits[i].is_dispute_handled
                    /\ (/\ r.type \in DisputeKinds
                        /\ r.client = c
                        /\ r.tx = clients_map[c].deposits[i].tx)
                          => clients_map_after(r)[c] = clients_map[c]

\* C5's case: an account no lock shields holds a handled deposit, has the
\* funds a fresh dispute of it would take and another dispute open, and is
\* handed a Resolve naming the handled deposit
C5_Witness ==
    \E c \in Known :
        \E i \in 1..Len(clients_map[c].deposits) :
            /\ clients_map[c].deposits[i].is_dispute_handled
            /\ ~IsBlocked(c)
            /\ clients_map[c].available >= clients_map[c].deposits[i].amount
            /\ clients_map[c].held > 0
            /\ ENABLED HandleExisting([type |-> Resolve, client |-> c,
                                       tx |-> clients_map[c].deposits[i].tx,
                                       amount |-> None])

\* C6: in every reachable state and for every record, a locked account is
\* still there and locked after the record; and an account that is locked
\* after the record and was not before existed before and was handed a
\* Chargeback naming one of its deposits that was under dispute.
C6_LockPermanence ==
    \A r \in Record :
        /\ \A c \in Known :
              clients_map[c].locked =>
                 /\ c \in DOMAIN clients_map_after(r)
                 /\ clients_map_after(r)[c].locked
        /\ \A c \in DOMAIN clients_map_after(r) :
              (/\ clients_map_after(r)[c].locked
               /\ ~(c \in Known /\ clients_map[c].locked))
                 => /\ r.type = Chargeback
                    /\ r.client = c
                    /\ Handed(r)
                    /\ NamedBy(c, r.tx) # 0
                    /\ IsOpen(clients_map[c].deposits[NamedBy(c, r.tx)])

\* C6's case: a locked account, the flag off, with funds and with another
\* deposit under dispute, so that deposits, withdrawals and a Resolve all
\* still act on it
C6_Witness ==
    \E c \in Known :
        /\ clients_map[c].locked
        /\ ~should_block_locked
        /\ clients_map[c].available > 0
        /\ \E i \in 1..Len(clients_map[c].deposits) :
              IsOpen(clients_map[c].deposits[i])

\* C7: in every reachable state with the block-locked flag on, a record of
\* any kind for a locked account leaves that account as it was.
C7_BlockLocked ==
    \A r \in Record :
        (r.client \in Known /\ IsBlocked(r.client)) => After(r) = Before(r)

\* C7's case: the flag is on, the account is locked, and it is handed a
\* valid Deposit with an unseen tx
C7_Witness ==
    \E r \in Record :
        /\ r.type = Deposit
        /\ ENABLED HandleExisting(r)
        /\ IsBlocked(r.client)

\* what C8 says of a Chargeback handed to an account
ChargebackEffect(r, shielded) ==
    LET i == NamedBy(r.client, r.tx)
    IN  IF shielded THEN After(r) = Before(r)
        ELSE IF i # 0 /\ IsOpen(Before(r).deposits[i])
        THEN /\ After(r).held = Sub(Before(r).held, Before(r).deposits[i].amount)
             /\ After(r).total = Sub(Before(r).total, Before(r).deposits[i].amount)
             /\ After(r).available = Before(r).available
             /\ After(r).locked
             /\ After(r).deposits =
                   [Before(r).deposits EXCEPT ![i].is_dispute_handled = TRUE]
        ELSE (i # 0 /\ ~Before(r).deposits[i].is_disputed) =>
                 After(r) = Before(r)

\* C8 as stated: in every reachable state, a Chargeback naming a deposit
\* under dispute takes the deposit's amount (f64 subtraction) from held and
\* from total, leaves available, marks the deposit handled and locks the
\* account; one naming a deposit never disputed changes nothing.
C8_ChargebackAsStated ==
    \A r \in Record :
        (r.type = Chargeback /\ Handed(r)) => ChargebackEffect(r, FALSE)

\* C8 amended: the same, except that a Chargeback handed to a locked account
\* while the block-locked flag is on changes nothing.
C8_Chargeback ==
    \A r \in Record :
        (r.type = Chargeback /\ Handed(r)) =>
            ChargebackEffect(r, IsBlocked(r.client))

\* C8's case: an unlocked account with available funds and a deposit under
\* dispute is handed the Chargeback that names it
C8_Witness ==
    \E r \in Record :
        /\ r.type = Chargeback
        /\ ENABLED HandleExisting(r)
        /\ ~Before(r).locked
        /\ Before(r).available > 0
        /\ NamedBy(r.client, r.tx) # 0
        /\ IsOpen(Before(r).deposits[NamedBy(r.client, r.tx)])
        /\ After(r).locked

\* what C9 says of a Resolve handed to an account
ResolveEffect(r, shielded) ==
    LET i == NamedBy(r.client, r.tx)
    IN  IF shielded THEN After(r) = Before(r)
        ELSE IF i # 0 /\ IsOpen(Before(r).deposits[i])
        THEN /\ After(r).held = Sub(Before(r).held, Before(r).deposits[i].amount)
             /\ After(r).available =
                   Add(Before(r).available, Before(r).deposits[i].amount)
             /\ After(r).total = Before(r).total
             /\ After(r).locked = Before(r).locked
             /\ After(r).deposits =
                   [Before(r).deposits EXCEPT ![i].is_dispute_handled = TRUE]
        ELSE (i # 0 /\ ~Before(r).deposits[i].is_disputed) =>
                 After(r) = Before(r)

\* C9 as stated: in every reachable state, a Resolve naming a deposit under
\* dispute moves the deposit's amount from held to available (f64 - and +),
\* leaves total and locked and marks the deposit handled; one naming an
\* undisputed deposit changes nothing.
C9_ResolveAsStated ==
    \A r \in Record :
        (r.type = Resolve /\ Handed(r)) => ResolveEffect(r, FALSE)

\* C9 amended: the same, except that a Resolve handed to a locked account
\* while the block-locked flag is on changes nothing.
C9_Resolve ==
    \A r \in Record :
        (r.type = Resolve /\ Handed(r)) => ResolveEffect(r, IsBlocked(r.client))

\* C9's case: an account no lock shields, with a deposit under dispute, is
\* handed the Resolve that names it, and the deposit is handled after it
C9_Witness ==
    \E r \in Record :
        /\ r.type = Resolve
        /\ ENABLED HandleExisting(r)
        /\ ~IsBlocked(r.client)
        /\ NamedBy(r.client, r.tx) # 0
        /\ IsOpen(Before(r).deposits[NamedBy(r.client, r.tx)])
        /\ After(r).deposits[NamedBy(r.client, r.tx)].is_dispute_handled

\* what C10 says of a Dispute handed to an account
DisputeEffect(r, shielded) ==
    LET i == NamedBy(r.client, r.tx)
    IN  IF shielded THEN After(r) = Before(r)
        ELSE (/\ i # 0
              /\ ~Before(r).deposits[i].is_disputed
              /\ ~Before(r).deposits[i].is_dispute_handled
              /\ Before(r).available >= Before(r).deposits[i].amount) =>
                 /\ After(r).available =
                       Sub(Before(r).available, Before(r).deposits[i].amount)
                 /\ After(r).held =
                       Add(Before(r).held, Before(r).deposits[i].amount)
                 /\ After(r).total = Before(r).total
                 /\ After(r).locked = Before(r).locked
                 /\ After(r).deposits =
                       [Before(r).deposits EXCEPT ![i].is_disputed = TRUE]

\* C10 as stated: in every reachable state, a Dispute naming an undisputed,
\* unhandled deposit of the account, with available >= its amount, marks it
\* disputed, moves the amount from available to held (f64 - and +) and
\* leaves total and locked.
C10_DisputeAsStated ==
    \A r \in Record :
        (r.type = Dispute /\ Handed(r)) => DisputeEffect(r, FALSE)

\* C10 amended: the same, provided the account is not a locked account with
\* the block-locked flag on, where the Dispute changes nothing.
C10_Dispute ==
    \A r \in Record :
        (r.type = Dispute /\ Handed(r)) => DisputeEffect(r, IsBlocked(r.client))

\* C10's case: an account no lock shields is handed a Dispute naming an
\* undisputed deposit that its available covers, and the deposit is
\* disputed after it
C10_Witness ==
    \E r \in Record :
        /\ r.type = Dispute
        /\ ENABLED HandleExisting(r)
        /\ ~IsBlocked(r.client)
        /\ NamedBy(r.client, r.tx) # 0
        /\ ~Before(r).deposits[NamedBy(r.client, r.tx)].is_disputed
        /\ Before(r).available >=
              Before(r).deposits[NamedBy(r.client, r.tx)].amount
        /\ After(r).deposits[NamedBy(r.client, r.tx)].is_disputed

\* C11: in every reachable state and for every record, (1) a valid Deposit
\* with an unseen tx for a client that has no account leaves that client with
\* an account of available = total = amount, held = 0, locked = false and a
\* history of exactly that one deposit, undisputed and unhandled; (2) every
\* account that exists still exists after the record; (3) an account that
\* exists after the record and did not before is the account of the client
\* of the record, and the record is a Deposit.
C11_AccountCreation ==
    \A r \in Record :
        /\ (r.type = Deposit /\ ~is_skipped(r) /\ r.client \notin Known) =>
              /\ r.client \in DOMAIN clients_map_after(r)
              /\ After(r).id = r.client
              /\ After(r).available = r.amount[1]
              /\ After(r).total = r.amount[1]
              /\ After(r).held = 0
              /\ After(r).locked = FALSE
              /\ After(r).deposits =
                    << [tx |-> r.tx, amount |-> r.amount[1],
                        is_disputed |-> FALSE, is_dispute_handled |-> FALSE] >>
        /\ Known \subseteq DOMAIN clients_map_after(r)
        /\ \A c \in DOMAIN clients_map_after(r) \ Known :
              r.type = Deposit /\ r.client = c

\* C11's case: while another account exists, with a dispute open, a valid
\* Deposit with an unseen tx comes for a client that has no account
C11_Witness ==
    \E r \in Record :
        /\ r.type = Deposit
        /\ ENABLED CreateClient(r)
        /\ \E c \in Known : clients_map[c].held > 0

\* C12: in every reachable state, a Withdrawal, Dispute, Resolve or
\* Chargeback whose client has no account leaves the map of accounts as it
\* was: no account is created and no account changes.  (The loop has no error
\* path for such a record: its only fallible call is Client::from_record,
\* reached for a Deposit alone.)
C12_UnknownClientDiscarded ==
    \A r \in Record :
        (r.type # Deposit /\ r.client \notin Known) =>
            clients_map_after(r) = clients_map

\* C12's case: a valid Withdrawal with an unseen tx reaches the routing step
\* for a client that has no account, while another client has an account
\* holding a deposit that a Dispute for the unknown client could name
C12_Witness ==
    \E r \in Record :
        /\ r.type = Withdrawal
        /\ ENABLED DropUnknown(r)
        /\ \E d \in Known :
              /\ clients_map[d].available >= r.amount[1]
              /\ \E t \in TxIds :
                    /\ Named(d, t) # {}
                    /\ ENABLED DropUnknown([type |-> Dispute,
                                            client |-> r.client,
                                            tx |-> t, amount |-> None])

\* the account c with its locked flag the other way round
LockTwin(c) == [c EXCEPT !.locked = ~c.locked]

\* C13: in every reachable state with the block-locked flag off, a record
\* handed to an account gives the same available, held, total and deposits
\* (with their flags) as the same record handed to the account that differs
\* from it in locked only.
C13_LockedNoInfluence ==
    ~should_block_locked =>
        \A r \in Record :
            Handed(r) =>
                LET a == handle_record(Before(r), r, should_block_locked)
                    b == handle_record(LockTwin(Before(r)), r,
                                       should_block_locked)
                IN  /\ a.available = b.available
                    /\ a.held = b.held
                    /\ a.total = b.total
                    /\ a.deposits = b.deposits

\* C13's case: the flag is off, and a locked account is handed a Dispute
\* that takes effect, and can also be handed a Deposit and a Withdrawal it
\* can pay
C13_Witness ==
    /\ ~should_block_locked
    /\ \E r \in Record :
          /\ r.type = Dispute
          /\ ENABLED HandleExisting(r)
          /\ Before(r).locked
          /\ After(r).held # Before(r).held
          /\ \E w \in Record :
                /\ w.type = Withdrawal
                /\ w.client = r.client
                /\ ENABLED HandleExisting(w)
                /\ w.amount[1] <= Before(r).available

\* what C14 says of a Dispute handed to an account, naming a deposit i that
\* is neither disputed nor handled: short of funds it changes nothing, and a
\* Resolve or Chargeback of the same tx right after it changes nothing
\* either; with the funds (at any later time: the failed attempt left no
\* trace) it marks the deposit disputed, unless shielded
UnfundedDisputeEffect(r, shielded) ==
    LET i == NamedBy(r.client, r.tx)
    IN  (/\ i # 0
         /\ ~Before(r).deposits[i].is_disputed
         /\ ~Before(r).deposits[i].is_dispute_handled) =>
            IF Before(r).available < Before(r).deposits[i].amount
            THEN /\ After(r) = Before(r)
                 /\ \A k \in {Resolve, Chargeback} :
                       handle_record(After(r), [r EXCEPT !.type = k],
                                     should_block_locked) = After(r)
            ELSE shielded \/ After(r).deposits[i].is_disputed

\* C14 as stated: in every reachable state, a Dispute naming an undisputed,
\* unhandled deposit while available < its amount leaves the account as it
\* was (the deposit not marked), a Resolve or Chargeback following it leaves
\* the account as it was, and the same Dispute marks the deposit disputed
\* whenever available is at least the amount.
C14_UnfundedDisputeAsStated ==
    \A r \in Record :
        (r.type = Dispute /\ Handed(r)) => UnfundedDisputeEffect(r, FALSE)

\* C14 amended: the same, except that the Dispute does not succeed, whatever
\* available is, while the account is locked and the block-locked flag is on.
C14_UnfundedDispute ==
    \A r \in Record :
        (r.type = Dispute /\ Handed(r)) =>
            UnfundedDisputeEffect(r, IsBlocked(r.client))

\* C14's case: an account no lock shields is handed a Dispute naming an
\* undisputed deposit that its available does not cover, and a Deposit that
\* can follow brings available up to the amount
C14_Witness ==
    \E r \in Record :
        /\ r.type = Dispute
        /\ ENABLED HandleExisting(r)
        /\ ~IsBlocked(r.client)
        /\ NamedBy(r.client, r.tx) # 0
        /\ ~Before(r).deposits[NamedBy(r.client, r.tx)].is_disputed
        /\ Before(r).available <
              Before(r).deposits[NamedBy(r.client, r.tx)].amount
        /\ \E d \in Record :
              /\ d.type = Deposit
              /\ d.client = r.client
              /\ ENABLED HandleExisting(d)
              /\ After(d).available >=
                    Before(r).deposits[NamedBy(r.client, r.tx)].amount

\* the stage of a deposit: its two flags
Stage(d) == << d.is_disputed, d.is_dispute_handled >>
Normal == << FALSE, FALSE >>
Disputed == << TRUE, FALSE >>
Handled == << TRUE, TRUE >>

\* C15: in every reachable state every deposit is Normal, Disputed or Handled
\* (is_dispute_handled implies is_disputed), and for every record every
\* deposit is at the same place of the same account after the record, with
\* the same tx and amount, and its stage is the same or has gone from Normal
\* to Disputed by a Dispute naming it, handed to its account, or from
\* Disputed to Handled by a Resolve or Chargeback naming it, handed to its
\* account; a deposit the record adds is Normal.
C15_DepositLifecycle ==
    /\ \A c \in Known :
          \A i \in 1..Len(clients_map[c].deposits) :
              Stage(clients_map[c].deposits[i]) \in {Normal, Disputed, Handled}
    /\ \A r \in Record :
          /\ \A c \in Known :
                \A i \in 1..Len(clients_map[c].deposits) :
                    /\ c \in DOMAIN clients_map_after(r)
                    /\ Len(clients_map_after(r)[c].deposits) >= i
                    /\ LET old == clients_map[c].deposits[i]
                           new == clients_map_after(r)[c].deposits[i]
                           named == /\ Handed(r)
                                    /\ r.client = c
                                    /\ r.tx = old.tx
                       IN  /\ new.tx = old.tx
                           /\ new.amount = old.amount
                           /\ \/ Stage(new) = Stage(old)
                              \/ /\ Stage(old) = Normal
                                 /\ Stage(new) = Disputed
                                 /\ r.type = Dispute
                                 /\ named
                              \/ /\ Stage(old) = Disputed
                                 /\ Stage(new) = Handled
                                 /\ r.type \in {Resolve, Chargeback}
                                 /\ named
          /\ \A c \in DOMAIN clients_map_after(r) :
                \A i \in 1..Len(clients_map_after(r)[c].deposits) :
                    (c \notin Known \/ i > Len(clients_map[c].deposits)) =>
                        Stage(clients_map_after(r)[c].deposits[i]) = Normal

\* C15's case: one account holds a Normal, a Disputed and a Handled deposit
\* and no lock shields it, so that records naming each of them reach the
\* dispute code
C15_Witness ==
    \E c \in Known :
        /\ ~IsBlocked(c)
        /\ \A st \in {Normal, Disputed, Handled} :
              \E i \in 1..Len(clients_map[c].deposits) :
                  Stage(clients_map[c].deposits[i]) = st

\* C16: in every reachable state and for every record, every account other
\* than that of the record's client is there after the record and is as it
\* was: balances, lock flag, deposits and their flags.
C16_OtherAccountsUnchanged ==
    \A r \in Record :
        \A c \in Known \ {r.client} :
            /\ c \in DOMAIN clients_map_after(r)
            /\ clients_map_after(r)[c] = clients_map[c]

\* C16's case: a Chargeback changes the account of its client while another
\* account, not locked, holds a deposit under dispute
C16_Witness ==
    \E r \in Record :
        /\ r.type = Chargeback
        /\ ENABLED HandleExisting(r)
        /\ After(r) # Before(r)
        /\ \E c \in Known \ {r.client} :
              /\ ~clients_map[c].locked
              /\ clients_map[c].held > 0

\* C17: in every reachable state, a Dispute, Resolve or Chargeback whose tx
\* is carried by no deposit of the account of its client (or whose client has
\* no account) leaves every account, and the dedup set, as it was.
C17_ForeignTxNoOp ==
    \A r \in Record :
        (/\ r.type \in DisputeKinds
         /\ (r.client \in Known => Named(r.client, r.tx) = {})) =>
            /\ clients_map_after(r) = clients_map
            /\ tx_set_after(r) = tx_set

\* C17's case: an account no lock shields, with deposits of its own (one of
\* them under dispute), is handed a Dispute naming a deposit of another
\* client that this other client could dispute, and can be handed a
\* Chargeback naming the tx of a withdrawal
C17_Witness ==
    \E r \in Record :
        /\ r.type = Dispute
        /\ ENABLED HandleExisting(r)
        /\ ~IsBlocked(r.client)
        /\ Before(r).held > 0
        /\ Named(r.client, r.tx) = {}
        /\ \E d \in Known \ {r.client} :
              /\ NamedBy(d, r.tx) # 0
              /\ ~clients_map[d].deposits[NamedBy(d, r.tx)].is_disputed
              /\ clients_map[d].available >=
                    clients_map[d].deposits[NamedBy(d, r.tx)].amount
        /\ \E t \in tx_set :
              /\ \A k \in Known : Named(k, t) = {}
              /\ ENABLED HandleExisting([type |-> Chargeback,
                                         client |-> r.client,
                                         tx |-> t, amount |-> None])

\* the sum, over the reals, of the amounts of the deposits under dispute
RECURSIVE OpenSum(_)
OpenSum(deposits) ==
    IF deposits = << >> THEN 0
    ELSE (IF IsOpen(Head(deposits)) THEN Head(deposits).amount ELSE 0)
         + OpenSum(Tail(deposits))

\* C19: in every reachable state and for every account, held is the sum of
\* the amounts of the account's deposits under dispute, so that held >= 0 and
\* held = 0 exactly when no dispute is open; and total >= 0.
C19_HeldIsOpenSum ==
    \A c \in Known :
        /\ clients_map[c].held = OpenSum(clients_map[c].deposits)
        /\ clients_map[c].held >= 0
        /\ clients_map[c].held = 0 <=>
              \A i \in 1..Len(clients_map[c].deposits) :
                  ~IsOpen(clients_map[c].deposits[i])
        /\ clients_map[c].total >= 0

\* the record is a Deposit or Withdrawal with an amount > 0
ValidMoney(r) ==
    r.type \in {Deposit, Withdrawal} /\ r.amount # None /\ r.amount[1] > 0

\* C20: in every reachable state, (1) a Deposit or Withdrawal with an amount
\* > 0 has its tx in the dedup set after the loop iteration, whether or not
\* the iteration changed an account; (2) a Deposit or Withdrawal whose tx is
\* in the dedup set changes no account; (3) a Dispute, Resolve or Chargeback
\* leaves the dedup set as it was, and one without an amount is handed to
\* the account of its client also when its tx is in the dedup set.
C20_DedupBeforeLookup ==
    \A r \in Record :
        /\ ValidMoney(r) => r.tx \in tx_set_after(r)
        /\ (r.type \in {Deposit, Withdrawal} /\ r.tx \in tx_set) =>
              clients_map_after(r) = clients_map
        /\ r.type \in DisputeKinds =>
              /\ tx_set_after(r) = tx_set
              /\ r.amount = None => ~is_skipped(r)
              /\ (r.amount = None /\ r.client \in Known) =>
                    After(r) = handle_record(Before(r), r, should_block_locked)

\* C20's case: the dedup set holds a tx that no deposit carries, no account
\* ever paid a withdrawal (total is the sum of its deposits' amounts, none
\* being charged back), so the tx came with a record that had no effect; a
\* Deposit reusing it is now skipped as a duplicate, and a Dispute naming a
\* tx of the dedup set is handed to its account and takes effect
C20_Witness ==
    /\ \E t \in tx_set :
          /\ \A c \in Known : Named(c, t) = {}
          /\ \E r \in Record :
                r.type = Deposit /\ r.tx = t /\ ENABLED SkipDuplicate(r)
    /\ \A c \in Known :
          /\ ~clients_map[c].locked
          /\ Len(clients_map[c].deposits) = 1
          /\ clients_map[c].total = clients_map[c].deposits[1].amount
    /\ \E r \in Record :
          /\ r.type = Dispute
          /\ r.tx \in tx_set
          /\ ENABLED HandleExisting(r)
          /\ After(r) # Before(r)

\* every shard is through its rows
ShardsDone ==
    phase = "sharded" /\ \A c \in Clients : next_of[c] = Len(shard(c))

\* no tx comes on Deposit or Withdrawal rows with an amount > 0 of two
\* different clients
TxOfOneClient ==
    \A i, j \in 1..Len(stream) :
        (/\ ValidMoney(stream[i])
         /\ ValidMoney(stream[j])
         /\ stream[i].tx = stream[j].tx) =>
            stream[i].client = stream[j].client

\* C18 as stated: whatever the stream and the interleaving of its shards,
\* when every shard is through its rows the accounts are those the loop
\* produced on the stream.
C18_ShardingAsStated == ShardsDone => clients_map = sequential

\* C18 amended: the same, for the streams in which no tx comes on valid
\* Deposit or Withdrawal rows of two different clients.
C18_Sharding == (ShardsDone /\ TxOfOneClient) => clients_map = sequential

\* C18's case: the shards are through a stream that opened an account for
\* every client, in which the rows of a client are not all adjacent and a
\* client reuses one of its own tx, so that the shared dedup set is put to work
C18_Witness ==
    /\ ShardsDone
    /\ TxOfOneClient
    /\ \A c \in Clients : c \in DOMAIN clients_map
    /\ stream[1].client = stream[MaxStream].client
    /\ stream[1].client # stream[2].client
    /\ \E i, j \in 1..Len(stream) :
          /\ i < j
          /\ ValidMoney(stream[i])
          /\ ValidMoney(stream[j])
          /\ stream[i].tx = stream[j].tx

=============================================================================
